---- MODULE Spec2Model ----
(***************************************************************************)
(* Model of the query-resolution pipeline of the watch-catalog assistant:  *)
(* the chat route handler (POST), the catalog retriever                    *)
(* (extractTopMetadata), the live price resolver (getLivePriceNoUrl) with  *)
(* its process-wide cache, and the price text parser (parsePriceFromText). *)
(*                                                                         *)
(* Conventions.  A JavaScript string is a sequence of one-character        *)
(* strings.  A value that may be null/undefined is a sequence of length 0  *)
(* (None) or 1 (Some(v)).  A number is an exact decimal [num, exp]         *)
(* standing for num / 10^exp, with no trailing zero in the fraction.       *)
(* Instants are milliseconds since the start of the run.                   *)
(***************************************************************************)
EXTENDS Integers, Sequences, FiniteSets, TLC

(***************************************************************************)
(* Bounds of the model.                                                    *)
(***************************************************************************)
\* number of clock advances in a run
MaxTicks == 2
\* number of requests a slot serves in a run
MaxRounds == 1
\* number of tokens in a text handed to the parser on its own
MaxLen == 4

(***************************************************************************)
(* Optional values and strings.                                            *)
(***************************************************************************)
None == <<>>

Some(v) == <<v>>

\* JavaScript truthiness of an optional string: present and not "".
TruthyStr(o) == o # None /\ Len(o[1]) > 0

\* JavaScript truthiness of an optional number: present and not 0.
TruthyNum(o) == o # None /\ o[1].num # 0

\* `s || null` and `s || ""` on optional strings.
StrOrNull(o) == IF TruthyStr(o) THEN o ELSE None

StrOrEmpty(o) == IF TruthyStr(o) THEN o[1] ELSE <<>>

\* `v || null` on optional numbers.
NumOrNull(o) == IF TruthyNum(o) THEN o ELSE None

StrOr(o, dflt) == IF TruthyStr(o) THEN o[1] ELSE dflt

UpperChars == <<"A","B","C","D","E","F","G","H","I","J","K","L","M",
                "N","O","P","Q","R","S","T","U","V","W","X","Y","Z">>

LowerChars == <<"a","b","c","d","e","f","g","h","i","j","k","l","m",
                "n","o","p","q","r","s","t","u","v","w","x","y","z">>

ToLowerChar(c) ==
  IF \E i \in 1..26 : UpperChars[i] = c
  THEN LowerChars[CHOOSE i \in 1..26 : UpperChars[i] = c]
  ELSE c

\* String.prototype.toLowerCase
ToLowerCase(s) == [i \in 1..Len(s) |-> ToLowerChar(s[i])]

WhiteSpace == {" ", "\t", "\n"}

RECURSIVE TrimStart(_)
TrimStart(s) ==
  IF s # <<>> /\ Head(s) \in WhiteSpace THEN TrimStart(Tail(s)) ELSE s

RECURSIVE TrimEnd(_)
TrimEnd(s) ==
  IF s # <<>> /\ s[Len(s)] \in WhiteSpace
  THEN TrimEnd(SubSeq(s, 1, Len(s) - 1)) ELSE s

\* String.prototype.trim
Trim(s) == TrimEnd(TrimStart(s))

\* s has t as a substring starting at index i
MatchesAt(s, t, i) ==
  /\ i + Len(t) - 1 <= Len(s)
  /\ \A j \in 1..Len(t) : s[i + j - 1] = t[j]

Contains(s, t) == \E i \in 1..(Len(s) + 1) : MatchesAt(s, t, i)


(***************************************************************************)
(* Numbers.                                                                *)
(***************************************************************************)
DigitChars == <<"0","1","2","3","4","5","6","7","8","9">>

IsDigit(c) == \E i \in 1..10 : DigitChars[i] = c

DigitVal(c) == (CHOOSE i \in 1..10 : DigitChars[i] = c) - 1

RECURSIVE DigitRun(_)
\* the longest prefix of s made of digits
DigitRun(s) ==
  IF s # <<>> /\ IsDigit(Head(s)) THEN <<Head(s)>> \o DigitRun(Tail(s)) ELSE <<>>

RECURSIVE NatOf(_)
NatOf(ds) ==
  IF ds = <<>> THEN 0
  ELSE 10 * NatOf(SubSeq(ds, 1, Len(ds) - 1)) + DigitVal(ds[Len(ds)])

RECURSIVE StripTrailingZeros(_)
StripTrailingZeros(ds) ==
  IF ds # <<>> /\ ds[Len(ds)] = "0"
  THEN StripTrailingZeros(SubSeq(ds, 1, Len(ds) - 1)) ELSE ds

Dec(n) == [num |-> n, exp |-> 0]

NaN == None

\* parseFloat on a string: the longest prefix that is a decimal literal
\* (digits, optionally "." and digits; or "." and at least one digit), else NaN.
parseFloat(s) ==
  LET ip   == DigitRun(s)
      rest == SubSeq(s, Len(ip) + 1, Len(s))
      fp   == IF rest # <<>> /\ Head(rest) = "." THEN DigitRun(Tail(rest)) ELSE <<>>
      fpN  == StripTrailingZeros(fp)
  IN  IF ip = <<>> /\ fp = <<>> THEN NaN
      ELSE Some([num |-> NatOf(ip \o fpN), exp |-> Len(fpN)])

RECURSIVE NatStr(_)
NatStr(n) ==
  IF n < 10 THEN <<DigitChars[n + 1]>>
  ELSE NatStr(n \div 10) \o <<DigitChars[(n % 10) + 1]>>

RECURSIVE Pow10(_)
Pow10(k) == IF k = 0 THEN 1 ELSE 10 * Pow10(k - 1)

RECURSIVE PadLeft(_, _)
PadLeft(ds, k) == IF Len(ds) >= k THEN ds ELSE PadLeft(<<"0">> \o ds, k)

\* Number to string, as template interpolation renders it.
NumStr(d) ==
  IF d.exp = 0 THEN NatStr(d.num)
  ELSE NatStr(d.num \div Pow10(d.exp)) \o <<".">>
         \o PadLeft(NatStr(d.num % Pow10(d.exp)), d.exp)

\* `${v}` of an optional number: null renders as the text "null".
InterpNum(o) == IF o = None THEN <<"n","u","l","l">> ELSE NumStr(o[1])

(***************************************************************************)
(* Price Text Parser.                                                      *)
(***************************************************************************)
\* the alternatives of the currency group, in the order the pattern lists them
CurrencyMarkers ==
  << <<"U","S","D">>, <<"E","U","R">>, <<"G","B","P">>, <<"C","H","F">>,
     <<"I","N","R">>, <<"$">>, <<"€">>, <<"£">>, <<"₹">> >>

\* the character class [0-9\.,]
IsNumChar(c) == IsDigit(c) \/ c = "." \/ c = ","

RECURSIVE NumRun(_)
\* the longest prefix of s inside the class (the greedy {2,} quantifier)
NumRun(s) ==
  IF s # <<>> /\ IsNumChar(Head(s)) THEN <<Head(s)>> \o NumRun(Tail(s)) ELSE <<>>

\* the alternative (by the /i flag, in any letter case) that matches at index i; 0 if none
MarkerAt(text, i) ==
  LET hit(a) ==
        LET mk == CurrencyMarkers[a]
        IN  /\ i + Len(mk) - 1 <= Len(text)
            /\ \A j \in 1..Len(mk) : ToLowerChar(text[i + j - 1]) = ToLowerChar(mk[j])
  IN  IF \E a \in 1..Len(CurrencyMarkers) : hit(a)
      THEN CHOOSE a \in 1..Len(CurrencyMarkers) :
             hit(a) /\ \A b \in 1..(a - 1) : ~hit(b)
      ELSE 0

\* the rest of the pattern after alternative a has matched at index i: an
\* optional white-space character (\s?), then the numeric token
MatchAfterMarker(text, i, a) ==
  IF a = 0 THEN None
  ELSE
    LET j   == i + Len(CurrencyMarkers[a])
        ws  == IF j <= Len(text) /\ text[j] \in WhiteSpace THEN 1 ELSE 0
        k   == j + ws
        run == NumRun(SubSeq(text, k, Len(text)))
    IN  IF Len(run) >= 2
        THEN Some([m0 |-> SubSeq(text, i, k + Len(run) - 1),
                   m1 |-> SubSeq(text, i, j - 1),
                   m2 |-> run])
        ELSE None

\* the match of the whole pattern anchored at index i: None, or the groups
MatchAt(text, i) == MatchAfterMarker(text, i, MarkerAt(text, i))

RECURSIVE MatchFrom(_, _)
RECURSIVE MatchOrNext(_, _, _)
\* the first match at index i or later
MatchFrom(text, i) ==
  IF i > Len(text) THEN None ELSE MatchOrNext(MatchAt(text, i), text, i)

MatchOrNext(m, text, i) == IF m # None THEN m ELSE MatchFrom(text, i + 1)

\* String.prototype.match without the g flag: the leftmost match
RegexMatch(text) == MatchFrom(text, 1)

RemoveAll(s, cs) == SelectSeq(s, LAMBDA c : c \notin cs)

\* variant: raw is the numeric token alone, without the currency marker
ParsedCandidateRawNumber(g, numeric) ==
  IF numeric = NaN
  THEN Some([value |-> None, currency |-> Some(g.m1), raw |-> Some(g.m2)])
  ELSE Some([value |-> numeric, currency |-> Some(g.m1), raw |-> Some(g.m2)])

\* the parser's result for the groups g of a match and the parsed number
ParsedCandidate(g, numeric) ==
  IF numeric = NaN
  THEN Some([value |-> None, currency |-> Some(g.m1), raw |-> Some(g.m0)])
  ELSE Some([value |-> numeric, currency |-> Some(g.m1), raw |-> Some(g.m0)])

\* variant: the thousands separators are left in the numeric token
ParsedFromMatchKeepCommas(m) ==
  IF m = None THEN None
  ELSE ParsedCandidate(m[1], parseFloat(RemoveAll(m[1].m2, WhiteSpace)))

\* the parser's result for the match m of the pattern
ParsedFromMatch(m) ==
  IF m = None THEN None
  ELSE ParsedCandidate(m[1], parseFloat(RemoveAll(RemoveAll(m[1].m2, WhiteSpace), {","})))

\* text is an optional string; the result is None or Some(candidate without source)
parsePriceFromText(text) ==
  IF ~TruthyStr(text) THEN None ELSE ParsedFromMatch(RegexMatch(text[1]))

(***************************************************************************)
(* Price Cache key.                                                        *)
(***************************************************************************)
\* variant: the field is lower-cased but not trimmed
NormFieldNoTrim(o) == ToLowerCase(StrOrEmpty(o))

\* `(x || "").toLowerCase().trim()` of an optional string
NormField(o) == Trim(ToLowerCase(StrOrEmpty(o)))

makeCacheKey(brand, model, ref) ==
  NormField(brand) \o <<"|">> \o NormField(model) \o <<"|">> \o NormField(ref)

(***************************************************************************)
(* Candidate extraction from a provider response.                          *)
(* A response is [price, source, results, text]; a structured price is an  *)
(* optional [value, currency, raw]; a result is [price, title, snippet,    *)
(* summary, url, source].                                                  *)
(***************************************************************************)
\* variant: any structured price object counts, whatever it holds
HasStructuredPriceAny(p) == p # None

\* `p && (p.value || p.raw)`
HasStructuredPrice(p) == p # None /\ (TruthyNum(p[1].value) \/ TruthyStr(p[1].raw))

\* the candidate built from a structured price and the source that goes with it
StructuredCandidate(p, source) ==
  [value    |-> NumOrNull(p[1].value),
   currency |-> StrOrNull(p[1].currency),
   raw      |-> StrOrNull(p[1].raw),
   source   |-> source]

\* `{ ...parsed, source }`
WithSource(parsed, source) ==
  [value |-> parsed.value, currency |-> parsed.currency, raw |-> parsed.raw,
   source |-> source]

\* `r.url || r.source || null`
ResultSource(r) == IF TruthyStr(r.url) THEN r.url ELSE StrOrNull(r.source)

\* `[r.title || "", r.snippet || "", r.summary || ""].join(" ")`
ResultText(r) ==
  StrOrEmpty(r.title) \o <<" ">> \o StrOrEmpty(r.snippet) \o <<" ">> \o StrOrEmpty(r.summary)

RECURSIVE FromResults(_)
RECURSIVE FromResult(_, _, _)
\* the loop over data.results: the first entry that yields a candidate
FromResults(results) ==
  IF results = <<>> THEN None
  ELSE FromResult(Head(results), parsePriceFromText(Some(ResultText(Head(results)))),
                  Tail(results))

\* variant: within an entry the parsed text is preferred to the structured price
FromResultTextFirst(r, parsed, rest) ==
  IF parsed # None
  THEN Some(WithSource(parsed[1], ResultSource(r)))
  ELSE IF HasStructuredPrice(r.price)
  THEN Some(StructuredCandidate(r.price, ResultSource(r)))
  ELSE FromResults(rest)

\* one iteration of the loop: entry r, its parsed text, and the entries after it
FromResult(r, parsed, rest) ==
  IF HasStructuredPrice(r.price)
  THEN Some(StructuredCandidate(r.price, ResultSource(r)))
  ELSE IF parsed # None
  THEN Some(WithSource(parsed[1], ResultSource(r)))
  ELSE FromResults(rest)

\* stage 3, given the parse of the response's own free text
FromParsedText(data, parsed) ==
  IF TruthyStr(data.text) /\ parsed # None
  THEN Some(WithSource(parsed[1], StrOrNull(data.source)))
  ELSE None

FromText(data) == FromParsedText(data, parsePriceFromText(data.text))

\* stages 2 and 3, given what the loop over the results found
FromResultsOrText(data, fromResults) ==
  IF fromResults # None THEN fromResults ELSE FromText(data)

\* variant: the result list is consulted before the top-level price
extractResultsFirst(data) ==
  IF FromResults(data.results) # None
  THEN FromResults(data.results)
  ELSE IF HasStructuredPrice(data.price)
  THEN Some(StructuredCandidate(data.price, StrOrNull(data.source)))
  ELSE FromText(data)

extractCandidateFromExaResponse(data) ==
  IF HasStructuredPrice(data.price)
  THEN Some(StructuredCandidate(data.price, StrOrNull(data.source)))
  ELSE FromResultsOrText(data, FromResults(data.results))

EXA_SEARCH == <<"e","x","a","-","s","e","a","r","c","h">>

\* `new Date().toISOString()` at instant t
ISOString(t) == <<"T">> \o NatStr(t) \o <<"Z">>

\* the payload getLivePriceNoUrl builds from a candidate at instant t
MakeOut(candidate, t) ==
  [value    |-> NumOrNull(candidate.value),
   currency |-> StrOrNull(candidate.currency),
   raw      |-> StrOrNull(candidate.raw),
   source   |-> StrOr(candidate.source, EXA_SEARCH),
   ts       |-> ISOString(t)]

(***************************************************************************)
(* Catalog Retriever.                                                      *)
(* A vector-database response is a sequence of matches [id, score,         *)
(* metadata]; metadata is an optional record of optional strings.          *)
(***************************************************************************)
MetaFields == {"brand", "model_name", "reference_number", "description",
               "category", "movement", "caliber"}

NoMetadata == [f \in MetaFields \cup {"id"} |-> None]

\* the stable record built from the match `top`
TopRecord(top) ==
  LET metadata == IF top.metadata = None THEN NoMetadata ELSE top.metadata[1]
  IN  [id    |-> IF TruthyStr(top.id) THEN top.id ELSE StrOrNull(metadata.id),
       score |-> top.score,
       brand |-> StrOrEmpty(metadata.brand),
       model_name |-> StrOrEmpty(metadata.model_name),
       reference_number |-> StrOrEmpty(metadata.reference_number),
       description |-> StrOrEmpty(metadata.description),
       category |-> StrOrEmpty(metadata.category),
       movement |-> StrOrEmpty(metadata.movement),
       caliber |-> StrOrEmpty(metadata.caliber)]

\* variant: an empty list of matches yields a record of empty fields
extractTopMetadataAlways(matches) ==
  IF matches = <<>>
  THEN Some(TopRecord([id |-> None, score |-> None, metadata |-> None]))
  ELSE Some(TopRecord(matches[1]))

\* variant: the match with the highest score is selected
extractTopMetadataBestScore(matches) ==
  IF matches = <<>> THEN None
  ELSE LET scoreOf(i) == IF matches[i].score = None THEN 0 - 1 ELSE matches[i].score[1].num
           best == CHOOSE i \in 1..Len(matches) :
                     \A j \in 1..Len(matches) : scoreOf(j) <= scoreOf(i)
       IN  Some(TopRecord(matches[best]))

extractTopMetadata(matches) ==
  IF matches = <<>> THEN None ELSE Some(TopRecord(matches[1]))

(***************************************************************************)
(* Inputs: questions, and what the three collaborators may answer.         *)
(***************************************************************************)
Str_Rolex == <<"R","o","l","e","x">>

Str_Submariner == <<"S","u","b","m","a","r","i","n","e","r">>

Str_126610LN == <<"1","2","6","6","1","0","L","N">>

Str_Diver == <<"d","i","v","e","r">>

Questions ==
  { <<>>,
    <<" "," ","\t">>,
    <<"P","r","i","c","e","?">>,
    <<"s","p","e","c","s">> }

\* a catalog record as the index stores it
MetaOf(brand, model, ref, desc) ==
  [id |-> None, brand |-> brand, model_name |-> model, reference_number |-> ref,
   description |-> desc, category |-> None, movement |-> None, caliber |-> None]

Match_Sub ==
  [id |-> Some(<<"w","1">>), score |-> Some(Dec(9)),
   metadata |-> Some(MetaOf(Some(Str_Rolex), Some(Str_Submariner), Some(Str_126610LN),
                            Some(Str_Diver)))]

\* the same watch, indexed a second time in another spelling
Match_SubLower ==
  [id |-> Some(<<"w","2">>), score |-> Some(Dec(5)),
   metadata |-> Some(MetaOf(Some(<<"r","o","l","e","x">>),
                            Some(<<" ">> \o ToLowerCase(Str_Submariner) \o <<" ">>),
                            Some(ToLowerCase(Str_126610LN)), None))]

\* a match that carries no metadata at all
Match_Bare == [id |-> None, score |-> None, metadata |-> None]

PineconeResponses ==
  { <<>>, <<Match_Sub>>, <<Match_SubLower, Match_Sub>> }

NoPrice == None

Price(value, currency, raw) == Some([value |-> value, currency |-> currency, raw |-> raw])

NoResult ==
  [price |-> NoPrice, title |-> None, snippet |-> None, summary |-> None,
   url |-> None, source |-> None]

NoData == [price |-> NoPrice, source |-> None, results |-> <<>>, text |-> None]

Str_USD == <<"U","S","D">>

Url1 == <<"u","1">>

Url2 == <<"u","2">>

\* "listed at $9,500 on Chrono24"
Str_Snippet ==
  <<"l","i","s","t","e","d"," ","a","t"," ","$","9",",","5","0","0"," ","o","n"," ",
    "C","h","r","o","n","o","2","4">>

\* a top-level structured price and a per-result structured price
Data_TopAndResult ==
  [NoData EXCEPT !.price = Price(Some(Dec(9000)), Some(Str_USD), None),
                 !.source = Some(Url1),
                 !.results = << [NoResult EXCEPT !.price = Price(Some(Dec(9500)), Some(<<"$">>), None),
                                                 !.url = Some(Url2)] >>]

\* a structured price that carries raw text only, and no source
Data_RawOnly ==
  [NoData EXCEPT !.price = Price(None, None, Some(<<"9","k">>))]

\* nothing usable anywhere: a structured price of 0 and text without a price
Data_Nothing ==
  [NoData EXCEPT !.price = Price(Some(Dec(0)), Some(Str_USD), Some(<<>>)),
                 !.text = Some(<<"n","o","n","e">>)]

ExaResponses ==
  { Data_TopAndResult, Data_RawOnly, Data_Nothing }

(***************************************************************************)
(* State.                                                                  *)
(***************************************************************************)
CACHE_TTL_MS == 5 * 60 * 1000

\* the clock advances by half a time-to-live at a time
TickMs == CACHE_TTL_MS \div 2

\* the request slots; each serves one request at a time
Reqs == {1, 2}

VARIABLES
  clock,     \* Date.now()
  cache,     \* the process-wide Map: key -> [ts, value]
  pc,        \* per slot: where the handler is suspended
  rounds,    \* per slot: number of requests started so far
  question,  \* per slot: the question of the current request
  pcResp,    \* per slot: what the vector database returned, if it returned
  meta,      \* per slot: the catalog record retrieved, if any
  key,       \* per slot: the resolver's cache key
  now,       \* per slot: the resolver's `now`
  data,      \* per slot: what the search provider returned, if it returned
  calls,     \* per slot: collaborator and cache invocations of the current request
  live,      \* per slot: what the resolver returned to the handler
  response,  \* per slot: the response of the current request, once sent
  arg,       \* the argument of a function applied on its own
  ret        \* the results of the applications made to arg, in order

vars == <<clock, cache, pc, rounds, question, pcResp, meta, key, now, data, calls, live,
          response, arg, ret>>

NoCalls == [embed |-> 0, pinecone |-> 0, exa |-> 0, cacheGet |-> 0, cacheSet |-> 0]

\* the resolver was not invoked
NotResolved == [invoked |-> FALSE, result |-> None, cached |-> FALSE]

NoResponse ==
  [status |-> 0, answer |-> None, metadata |-> None, provenance |-> None, error |-> None]

\* no request has arrived yet
HandlersIdle ==
  /\ clock = 0
  /\ pc = [r \in Reqs |-> "idle"]
  /\ rounds = [r \in Reqs |-> 0]
  /\ question = [r \in Reqs |-> <<>>]
  /\ pcResp = [r \in Reqs |-> None]
  /\ meta = [r \in Reqs |-> None]
  /\ key = [r \in Reqs |-> <<>>]
  /\ now = [r \in Reqs |-> 0]
  /\ data = [r \in Reqs |-> None]
  /\ calls = [r \in Reqs |-> NoCalls]
  /\ live = [r \in Reqs |-> NotResolved]
  /\ response = [r \in Reqs |-> NoResponse]

\* no function is applied on its own
NoArg == [fn |-> "none"]

FnIdle == arg = NoArg /\ ret = <<>>

\* a fresh process: `new Map()`
Init == cache = <<>> /\ HandlersIdle /\ FnIdle

(***************************************************************************)
(* Responses of the route handler.                                         *)
(***************************************************************************)
\* NextResponse.json({ error: "question required" }, { status: 400 })
ClientError ==
  [NoResponse EXCEPT !.status = 400, !.error = Some(<<"question required">>)]

\* variant: the failure is reported inside a successful answer
ServerErrorAsAnswer(message) ==
  [NoResponse EXCEPT !.status = 200, !.answer = Some(<<"internal error">>)]

\* NextResponse.json({ error: e?.message || "internal error" }, { status: 500 })
ServerError(message) ==
  [NoResponse EXCEPT !.status = 500,
                     !.error = Some(IF message = <<>> THEN <<"internal error">> ELSE message)]

NoMatchAnswer ==
  [NoResponse EXCEPT !.status = 200,
     !.answer = Some(<<"I couldn't find a matching model in the catalog. Try asking about a specific brand/model.">>)]

\* `${meta.brand} ${meta.model_name} (${meta.reference_number})`
CatalogLine(m) ==
  m.brand \o <<" ">> \o m.model_name \o <<" (">> \o m.reference_number \o <<")">>

\* variant: the answer is the description alone
CatalogAnswerBare(m) ==
  [NoResponse EXCEPT !.status = 200, !.answer = Some(m.description), !.metadata = Some(m)]

CatalogAnswer(m) ==
  [NoResponse EXCEPT !.status = 200,
     !.answer = Some(CatalogLine(m) \o <<":\n">> \o m.description),
     !.metadata = Some(m)]

NotAvailableAnswer(m) ==
  [NoResponse EXCEPT !.status = 200,
     !.answer = Some(<<"Live price lookup is not available. Here's catalog info:\n\n">>
                     \o CatalogLine(m) \o <<"\n">> \o m.description),
     !.metadata = Some(m)]

DegradedAnswer(m) ==
  [NoResponse EXCEPT !.status = 200,
     !.answer = Some(<<"I couldn't fetch a clear live listing price right now. Here's the catalog info I found:\n\n">>
                     \o CatalogLine(m) \o <<"\n">> \o m.description),
     !.metadata = Some(m)]

\* variant: the live answer carries no provenance
LiveAnswerNoProvenance(m, out) ==
  [NoResponse EXCEPT !.status = 200,
     !.answer = Some(<<"Live listing: ">> \o StrOrEmpty(out.currency) \o <<" ">>
                     \o InterpNum(out.value) \o <<" -- source: ">>
                     \o StrOr(Some(out.source), <<"web search">>)
                     \o <<" (as of ">> \o out.ts \o <<").">>),
     !.metadata = Some(m)]

\* (the dash of the message is written "--" here)
LiveAnswer(m, out) ==
  [NoResponse EXCEPT !.status = 200,
     !.answer = Some(<<"Live listing: ">> \o StrOrEmpty(out.currency) \o <<" ">>
                     \o InterpNum(out.value) \o <<" -- source: ">>
                     \o StrOr(Some(out.source), <<"web search">>)
                     \o <<" (as of ">> \o out.ts \o <<").">>),
     !.provenance = Some(<< [source |-> StrOr(Some(out.source), <<"e","x","a">>),
                             raw |-> StrOrEmpty(out.raw)] >>),
     !.metadata = Some(m)]

\* variant: a resolver that returned nothing is treated as a failure of the request
PriceAnswerStrict(m, result) ==
  IF result # None THEN LiveAnswer(m, result[1]) ELSE ServerError(<<>>)

\* what the handler answers once the resolver has returned `result`
PriceAnswer(m, result) ==
  IF result # None THEN LiveAnswer(m, result[1]) ELSE DegradedAnswer(m)

(***************************************************************************)
(* Intent Classifier.                                                      *)
(***************************************************************************)
PriceTerms ==
  { <<"p","r","i","c","e">>, <<"c","o","s","t">>, <<"m","a","r","k","e","t">>,
    <<"l","i","s","t","i","n","g">>, <<"r","e","s","a","l","e">>, <<"s","e","l","l">>,
    <<"h","o","w"," ","m","u","c","h">>,
    <<"c","u","r","r","e","n","t"," ","p","r","i","c","e">>, <<"v","a","l","u","e">> }

\* variant: a question about specifications counts as a price question too
needsPriceLoose(q) ==
  \E t \in PriceTerms \cup { <<"s","p","e","c">> } : Contains(ToLowerCase(q), t)

\* /price|cost|.../i.test(question)
needsPrice(q) == \E t \in PriceTerms : Contains(ToLowerCase(q), t)

\* variant: the question is not trimmed before the test
IsBlankNoTrim(q) == q = <<>>

\* `!question || !question.trim()`
IsBlank(q) == q = <<>> \/ Trim(q) = <<>>

(***************************************************************************)
(* Price Cache.                                                            *)
(***************************************************************************)
\* variant: the lookup never finds the entry
CacheGetMiss(c, k) == None

\* cache.get(key)
CacheGet(c, k) == IF k \in DOMAIN c THEN Some(c[k]) ELSE None

\* variant: an entry already present is kept (the first writer wins)
CacheSetKeepFirst(c, k, entry) ==
  [x \in DOMAIN c \cup {k} |-> IF x \in DOMAIN c THEN c[x] ELSE entry]

\* cache.set(key, entry)
CacheSet(c, k, entry) == [x \in DOMAIN c \cup {k} |-> IF x = k THEN entry ELSE c[x]]

\* variant: an entry whose age equals the time-to-live still counts as fresh
IsFreshInclusive(cached, t) == cached # None /\ (t - cached[1].ts) <= CACHE_TTL_MS

\* `cached && (now - cached.ts) < CACHE_TTL_MS`
IsFresh(cached, t) == cached # None /\ (t - cached[1].ts) < CACHE_TTL_MS

(***************************************************************************)
(* Live Price Resolver (getLivePriceNoUrl), in the two steps between which *)
(* it is suspended on the provider call.                                   *)
(***************************************************************************)
\* the resolver's arguments as the handler passes them: `meta.brand || ""`, ...
KeyOfMeta(m) ==
  makeCacheKey(Some(m.brand), Some(m.model_name), Some(m.reference_number))

\* the payload for the candidate found, if any
OutOf(candidate, t) ==
  IF candidate # None THEN Some(MakeOut(candidate[1], t)) ELSE None

\* the result of the try block for a provider outcome (None: the call threw),
\* completed at instant t
Resolved(outcome, t) ==
  IF outcome = None THEN None
  ELSE OutOf(extractCandidateFromExaResponse(outcome[1]), t)

\* variant: the cache is written whatever the try block produced
CacheAfterAlways(c, k, t, result) ==
  CacheSet(c, k, [ts |-> t,
                  value |-> IF result # None THEN result[1]
                            ELSE MakeOut([value |-> None, currency |-> None,
                                          raw |-> None, source |-> None], t)])

\* the cache after the try block: written only when there is a result
CacheAfter(c, k, t, result) ==
  IF result # None THEN CacheSet(c, k, [ts |-> t, value |-> result[1]]) ELSE c

Bump(r, field) == [calls EXCEPT ![r][field] = @ + 1]

\* variant: a failure is left unhandled and the request gets no response
FinishUnlessFailure(r, resp) ==
  IF resp.status = 500
  THEN /\ response' = response
       /\ pc' = [pc EXCEPT ![r] = "failed"]
  ELSE /\ response' = [response EXCEPT ![r] = resp]
       /\ pc' = [pc EXCEPT ![r] = "done"]

Finish(r, resp) ==
  /\ response' = [response EXCEPT ![r] = resp]
  /\ pc' = [pc EXCEPT ![r] = "done"]

(***************************************************************************)
(* The route handler (POST), one action per stretch between two awaits.    *)
(***************************************************************************)
\* a request arrives: the body is read and the question checked
Start(r, q) ==
  /\ pc[r] \in {"idle", "done"}
  /\ rounds[r] < MaxRounds
  /\ rounds' = [rounds EXCEPT ![r] = @ + 1]
  /\ question' = [question EXCEPT ![r] = q]
  /\ pcResp' = [pcResp EXCEPT ![r] = None]
  /\ meta' = [meta EXCEPT ![r] = None]
  /\ key' = [key EXCEPT ![r] = <<>>]
  /\ now' = [now EXCEPT ![r] = 0]
  /\ data' = [data EXCEPT ![r] = None]
  /\ live' = [live EXCEPT ![r] = NotResolved]
  /\ IF IsBlank(q)
     THEN /\ response' = [response EXCEPT ![r] = ClientError]
          /\ pc' = [pc EXCEPT ![r] = "done"]
          /\ calls' = [calls EXCEPT ![r] = NoCalls]
     ELSE /\ response' = [response EXCEPT ![r] = NoResponse]
          /\ pc' = [pc EXCEPT ![r] = "embedding"]
          /\ calls' = [calls EXCEPT ![r] = [NoCalls EXCEPT !.embed = 1]]
  /\ UNCHANGED <<clock, cache, arg, ret>>

\* getEmbedding returns a vector, or throws on a failed call or a missing vector
EmbeddingReturns(r, outcome) ==
  /\ pc[r] = "embedding"
  /\ IF outcome = "ok"
     THEN /\ pc' = [pc EXCEPT ![r] = "querying"]
          /\ calls' = Bump(r, "pinecone")
          /\ UNCHANGED response
     ELSE /\ Finish(r, ServerError(IF outcome = "error"
                                   THEN <<"OpenAI embedding error: ">>
                                   ELSE <<"OpenAI returned no embedding">>))
          /\ UNCHANGED calls
  /\ UNCHANGED <<clock, cache, rounds, question, pcResp, meta, key, now, data, live, arg, ret>>

\* the handler once the catalog record m (None: no match) is known
AfterRetrieval(r, m) ==
  /\ meta' = [meta EXCEPT ![r] = m]
  /\ IF m = None
     THEN Finish(r, NoMatchAnswer)
     ELSE IF needsPrice(question[r])
     THEN /\ pc' = [pc EXCEPT ![r] = "importing"]
          /\ UNCHANGED response
     ELSE Finish(r, CatalogAnswer(m[1]))

\* queryPineconeVector returns (Some(matches)) or throws (None)
PineconeReturns(r, outcome) ==
  /\ pc[r] = "querying"
  /\ pcResp' = [pcResp EXCEPT ![r] = outcome]
  /\ IF outcome = None
     THEN /\ Finish(r, ServerError(<<"Pinecone query error: ">>))
          /\ UNCHANGED meta
     ELSE AfterRetrieval(r, extractTopMetadata(outcome[1]))
  /\ UNCHANGED <<clock, cache, rounds, question, key, now, data, calls, live, arg, ret>>

\* the resolver from its entry to its provider call, with key k and the
\* entry `cached` found under it
EnterResolver(r, k, cached) ==
  /\ key' = [key EXCEPT ![r] = k]
  /\ now' = [now EXCEPT ![r] = clock]
  /\ IF IsFresh(cached, clock)
     THEN /\ live' = [live EXCEPT ![r] =
                [invoked |-> TRUE, result |-> Some(cached[1].value), cached |-> TRUE]]
          /\ calls' = Bump(r, "cacheGet")
          /\ Finish(r, PriceAnswer(meta[r][1], Some(cached[1].value)))
     ELSE /\ live' = [live EXCEPT ![r] = [NotResolved EXCEPT !.invoked = TRUE]]
          /\ calls' = [calls EXCEPT ![r].cacheGet = @ + 1, ![r].exa = @ + 1]
          /\ pc' = [pc EXCEPT ![r] = "searching"]
          /\ UNCHANGED response

LookUp(r, k) == EnterResolver(r, k, CacheGet(cache, k))

\* the dynamic import of the resolver settles; on success the resolver runs
\* up to its provider call
ImportReturns(r, ok) ==
  /\ pc[r] = "importing"
  /\ IF ~ok
     THEN /\ Finish(r, NotAvailableAnswer(meta[r][1]))
          /\ UNCHANGED <<key, now, calls, live>>
     ELSE LookUp(r, KeyOfMeta(meta[r][1]))
  /\ UNCHANGED <<clock, cache, rounds, question, pcResp, meta, data, arg, ret>>

\* variant: a resolution that ends without a result evicts the key's entry
LeaveResolverEvicting(r, result) ==
  /\ cache' = IF result # None
              THEN CacheSet(cache, key[r], [ts |-> now[r], value |-> result[1]])
              ELSE [x \in DOMAIN cache \ {key[r]} |-> cache[x]]
  /\ calls' = IF result # None THEN Bump(r, "cacheSet") ELSE calls
  /\ live' = [live EXCEPT ![r].result = result]
  /\ Finish(r, PriceAnswer(meta[r][1], result))

\* the resolver after its provider call, and the handler to its response
LeaveResolver(r, result) ==
  /\ cache' = CacheAfter(cache, key[r], now[r], result)
  /\ calls' = IF result # None THEN Bump(r, "cacheSet") ELSE calls
  /\ live' = [live EXCEPT ![r].result = result]
  /\ Finish(r, PriceAnswer(meta[r][1], result))

\* variant: a provider call that threw is issued a second time
ExaReturnsRetry(r, outcome) ==
  /\ pc[r] = "searching"
  /\ IF outcome = None /\ calls[r].exa < 2
     THEN /\ calls' = Bump(r, "exa")
          /\ UNCHANGED <<cache, pc, data, live, response>>
     ELSE /\ data' = [data EXCEPT ![r] = outcome]
          /\ LeaveResolver(r, Resolved(outcome, clock))
  /\ UNCHANGED <<clock, rounds, question, pcResp, meta, key, now, arg, ret>>

\* callExaSearch returns (Some(data)) or throws (None); the resolver and the
\* handler run to the response
ExaReturns(r, outcome) ==
  /\ pc[r] = "searching"
  /\ data' = [data EXCEPT ![r] = outcome]
  /\ LeaveResolver(r, Resolved(outcome, clock))
  /\ UNCHANGED <<clock, rounds, question, pcResp, meta, key, now, arg, ret>>

\* time passes
Tick ==
  /\ clock < MaxTicks * TickMs
  /\ clock' = clock + TickMs
  /\ UNCHANGED <<cache, pc, rounds, question, pcResp, meta, key, now, data, calls, live, response, arg, ret>>

(***************************************************************************)
(* Spec: two request slots served concurrently over the shared cache.      *)
(***************************************************************************)
EmbeddingOutcomes == {"ok", "error", "novector"}

PineconeOutcomes == {None} \cup {Some(p) : p \in PineconeResponses}

ExaOutcomes == {None} \cup {Some(d) : d \in ExaResponses}

Next ==
  \/ \E r \in Reqs, q \in Questions : Start(r, q)
  \/ \E r \in Reqs, o \in EmbeddingOutcomes : EmbeddingReturns(r, o)
  \/ \E r \in Reqs, o \in PineconeOutcomes : PineconeReturns(r, o)
  \/ \E r \in Reqs, ok \in BOOLEAN : ImportReturns(r, ok)
  \/ \E r \in Reqs, o \in ExaOutcomes : ExaReturns(r, o)
  \/ Tick

Spec == Init /\ [][Next]_vars

\* every call a request is suspended on eventually returns or fails, and the
\* event loop then resumes the handler
Fairness ==
  \A r \in Reqs :
    /\ WF_vars(\E o \in EmbeddingOutcomes : EmbeddingReturns(r, o))
    /\ WF_vars(\E o \in PineconeOutcomes : PineconeReturns(r, o))
    /\ WF_vars(\E ok \in BOOLEAN : ImportReturns(r, ok))
    /\ WF_vars(\E o \in ExaOutcomes : ExaReturns(r, o))

\* each slot serves one request
NextLive ==
  \/ \E r \in Reqs, q \in Questions : rounds[r] = 0 /\ Start(r, q)
  \/ \E r \in Reqs, o \in EmbeddingOutcomes : EmbeddingReturns(r, o)
  \/ \E r \in Reqs, o \in PineconeOutcomes : PineconeReturns(r, o)
  \/ \E r \in Reqs, ok \in BOOLEAN : ImportReturns(r, ok)
  \/ \E r \in Reqs, o \in ExaOutcomes : ExaReturns(r, o)
  \/ Tick

SpecLive == Init /\ [][NextLive]_vars /\ Fairness

(***************************************************************************)
(* SpecOne: one request, over every combination of collaborator answers.   *)
(***************************************************************************)
Result_Struct ==
  [NoResult EXCEPT !.price = Price(Some(Dec(9500)), Some(<<"$">>), None), !.url = Some(Url2)]

Result_Text == [NoResult EXCEPT !.snippet = Some(Str_Snippet), !.url = Some(Url1)]

Result_ValueOnly == [NoResult EXCEPT !.price = Price(Some(Dec(8000)), None, None)]

Result_Title == [NoResult EXCEPT !.title = Some(<<"n","e","w">>), !.source = Some(Url2)]

TopPricesOne ==
  { NoPrice,
    Price(Some(Dec(9000)), Some(Str_USD), None),
    Price(None, None, Some(<<"9","k">>)),
    Price(Some(Dec(0)), Some(Str_USD), Some(<<>>)) }

SourcesOne == { None, Some(Url1) }

\* a structured price and a price in the snippet, in one entry
Result_Both ==
  [NoResult EXCEPT !.price = Price(Some(Dec(8000)), Some(Str_USD), Some(<<"8","k">>)),
                   !.snippet = Some(Str_Snippet), !.source = Some(Url2)]

\* a currency code in the title and the amount in the summary
Result_Split ==
  [NoResult EXCEPT !.title = Some(<<"i","n"," ","E","u","r">>),
                   !.summary = Some(<<"1","2",".","5","0"," ","n","e","t">>)]

ResultListsOne ==
  { <<>>, <<Result_Struct>>, <<Result_Text, Result_Struct>>,
    <<Result_Title, Result_ValueOnly>>, <<Result_Title>>,
    <<Result_Title, Result_Both, Result_Text>>, <<Result_Split>> }

TextsOne ==
  { None, Some(<<"E","U","R"," ",".",",">>), Some(<<"$","0","0">>),
    Some(<<"n","o","n","e">>) }

ExaResponsesOne ==
  { [price |-> p, source |-> src, results |-> rs, text |-> t] :
      p \in TopPricesOne, src \in SourcesOne, rs \in ResultListsOne, t \in TextsOne }

ExaOutcomesOne == {None} \cup {Some(d) : d \in ExaResponsesOne}

QuestionsOne ==
  Questions \cup { <<"H","o","w"," ","m","u","c","h","?">>, <<"d","i","a","l"," ">> }

PineconeOutcomesOne ==
  PineconeOutcomes \cup { Some(<<Match_Bare>>), Some(<<Match_Sub, Match_Bare>>) }

NextOne ==
  \/ \E q \in QuestionsOne : rounds[1] = 0 /\ Start(1, q)
  \/ \E o \in EmbeddingOutcomes : EmbeddingReturns(1, o)
  \/ \E o \in PineconeOutcomesOne : PineconeReturns(1, o)
  \/ \E ok \in BOOLEAN : ImportReturns(1, ok)
  \/ \E o \in ExaOutcomesOne : ExaReturns(1, o)
  \/ Tick

SpecOne == Init /\ [][NextOne]_vars

(***************************************************************************)
(* SpecKeys: two price-intent requests, one per slot, for catalog records  *)
(* that spell the same watch in several ways, in a process whose cache     *)
(* already holds the entry of an earlier resolution for another watch.     *)
(***************************************************************************)
Str_Price == <<"P","r","i","c","e","?">>

BrandsKeys == { Some(Str_Rolex), Some(ToLowerCase(Str_Rolex)) }

ModelsKeys ==
  { Some(Str_Submariner), Some(<<" ">> \o ToLowerCase(Str_Submariner) \o <<" ">>),
    Some(<<"S","u","b"," ","m","a","r","i","n","e","r">>) }

RefsKeys == { Some(Str_126610LN), Some(ToLowerCase(Str_126610LN)) }

PineconeOutcomesKeys ==
  { Some(<< [id |-> None, score |-> Some(Dec(9)),
             metadata |-> Some(MetaOf(b, m, ref, None))] >>) :
      b \in BrandsKeys, m \in ModelsKeys, ref \in RefsKeys }

\* the entry a resolution for ("Omega", "", "") wrote at instant 0
Key_Omega == makeCacheKey(Some(<<"O","m","e","g","a">>), None, None)

Entry_Omega == [ts |-> 0, value |-> Resolved(Some(Data_TopAndResult), 0)[1]]

InitKeys == cache = CacheSet(<<>>, Key_Omega, Entry_Omega) /\ HandlersIdle /\ FnIdle

NextKeys ==
  \/ \E r \in Reqs : rounds[r] = 0 /\ Start(r, Str_Price)
  \/ \E r \in Reqs : EmbeddingReturns(r, "ok")
  \/ \E r \in Reqs, o \in PineconeOutcomesKeys : PineconeReturns(r, o)
  \/ \E r \in Reqs : ImportReturns(r, TRUE)
  \/ \E r \in Reqs, o \in ExaOutcomes : ExaReturns(r, o)
  \/ Tick

SpecKeys == InitKeys /\ [][NextKeys]_vars

(***************************************************************************)
(* SpecFn: the price text parser applied on its own, to a text and then to *)
(* the raw text of what it returned.                                       *)
(***************************************************************************)
\* the pieces the texts are made of: currency markers in either letter case,
\* white space, digits, separators, and a character of no meaning
Tokens ==
  { <<"$">>, <<"U","S","D">>, <<"e","u","r">>, <<" ">>, <<"9">>, <<"0">>,
    <<",">>, <<".">>, <<"x">> }

RECURSIVE TextsOf(_)
\* the texts of at most n tokens
TextsOf(n) ==
  IF n = 0 THEN { <<>> }
  ELSE LET shorter == TextsOf(n - 1)
       IN  shorter \cup { t \o k : t \in shorter, k \in Tokens }

ParserInputs ==
  { [fn |-> "parse", text |-> None] }
    \cup { [fn |-> "parse", text |-> Some(t)] : t \in TextsOf(MaxLen) }

\* the values a field of a (brand, model, reference) tuple takes: missing,
\* empty, plain, padded and in capitals, and holding the separator
KeyFields ==
  { None, Some(<<>>), Some(<<"a">>), Some(<<" ","A","\t">>), Some(<<"a","|","a">>) }

KeyTuples == { [brand |-> b, model |-> m, ref |-> x] : b \in KeyFields, m \in KeyFields, x \in KeyFields }

\* two tuples, to be compared by their keys
KeyInputs == { [fn |-> "key", t1 |-> t1, t2 |-> t2] : t1 \in KeyTuples, t2 \in KeyTuples }

InitFn ==
  cache = <<>> /\ HandlersIdle /\ arg \in ParserInputs \cup KeyInputs /\ ret = <<>>

\* parsePriceFromText(text)
ParseText ==
  /\ arg.fn = "parse" /\ ret = <<>>
  /\ ret' = << parsePriceFromText(arg.text) >>
  /\ UNCHANGED <<clock, cache, pc, rounds, question, pcResp, meta, key, now, data, calls,
                 live, response, arg>>

\* parsePriceFromText(c.raw), for the candidate c just returned
ParseRaw ==
  /\ arg.fn = "parse" /\ Len(ret) = 1 /\ ret[1] # None
  /\ ret' = Append(ret, parsePriceFromText(ret[1][1].raw))
  /\ UNCHANGED <<clock, cache, pc, rounds, question, pcResp, meta, key, now, data, calls,
                 live, response, arg>>

\* makeCacheKey(brand, model, ref), for each of the two tuples
MakeKeys ==
  /\ arg.fn = "key" /\ ret = <<>>
  /\ ret' = << makeCacheKey(arg.t1.brand, arg.t1.model, arg.t1.ref),
               makeCacheKey(arg.t2.brand, arg.t2.model, arg.t2.ref) >>
  /\ UNCHANGED <<clock, cache, pc, rounds, question, pcResp, meta, key, now, data, calls,
                 live, response, arg>>

NextFn == ParseText \/ ParseRaw \/ MakeKeys

SpecFn == InitFn /\ [][NextFn]_vars

(***************************************************************************)
(* Properties.                                                             *)
(***************************************************************************)
\* slot r takes the step in which its provider call returns
ExaStep(r) == pc[r] = "searching" /\ pc'[r] = "done"

\* slot r takes the step in which it enters the resolver
ResolverEntry(r) == ~live[r].invoked /\ live'[r].invoked

\* C1: a cache entry is added or overwritten only by the step of a resolution
\* whose provider call returned a response from which a candidate was
\* extracted, and holds the payload that resolution returns; the step of a
\* resolution whose provider call failed or yielded no candidate returns none
\* and leaves the cache as it was.
C1_CacheWrittenOnlyOnSuccess ==
  [][/\ \A k \in DOMAIN cache' :
          CacheGet(cache', k) # CacheGet(cache, k) =>
            \E r \in Reqs :
              /\ ExaStep(r)
              /\ key[r] = k
              /\ data'[r] # None
              /\ extractCandidateFromExaResponse(data'[r][1]) # None
              /\ live'[r].result = Some(cache'[k].value)
              /\ ~live'[r].cached
     /\ \A r \in Reqs :
          (ExaStep(r) /\ (data'[r] = None \/ extractCandidateFromExaResponse(data'[r][1]) = None))
            => (cache' = cache /\ live'[r].result = None)]_vars

\* C1 witness: a resolution has ended without a result, nothing is cached for
\* its key, and another resolution for the same key is calling the provider.
C1_Witness ==
  \E r, r2 \in Reqs :
    /\ r # r2
    /\ pc[r] = "done" /\ calls[r].exa = 1 /\ live[r].result = None
    /\ key[r] \notin DOMAIN cache
    /\ pc[r2] = "searching" /\ key[r2] = key[r] /\ calls[r2].exa = 1

\* C2: on entering the resolver, the result is served from cache (marked,
\* equal to the stored payload, no provider call) exactly when an entry for
\* the key exists whose age is strictly below five minutes; otherwise the
\* provider is called, exactly once, and what the resolver then returns is
\* none or a payload stamped at the provider's return, not the stale entry.
C2_CacheHitIffFresh ==
  [][\A r \in Reqs :
       /\ ResolverEntry(r) =>
            LET e == CacheGet(cache, key'[r])
                fresh == e # None /\ clock - e[1].ts < 300000
            IN  /\ live'[r].cached <=> fresh
                /\ fresh => /\ calls'[r].exa = 0
                            /\ pc'[r] = "done"
                            /\ live'[r].result = Some(e[1].value)
                /\ ~fresh => /\ calls'[r].exa = 1
                             /\ pc'[r] = "searching"
                             /\ live'[r].result = None
       /\ ExaStep(r) =>
            /\ ~live'[r].cached
            /\ calls'[r].exa = 1
            /\ live'[r].result # None => live'[r].result[1].ts = ISOString(clock)
       /\ (live[r].invoked /\ live'[r].invoked) => calls'[r].exa = calls[r].exa]_vars

\* C2 witness: an entry whose age is exactly the time-to-live is in the cache
\* and the resolution for its key has gone to the provider.
C2_Witness ==
  \E r \in Reqs :
    /\ pc[r] = "searching"
    /\ key[r] \in DOMAIN cache
    /\ now[r] - cache[key[r]].ts = CACHE_TTL_MS
    /\ calls[r].exa = 1

\* slot r has completed a resolution that called the provider, returned a
\* payload, and whose entry is the one now in the cache
IsLastWriter(r) ==
  /\ pc[r] = "done" /\ live[r].invoked /\ ~live[r].cached /\ live[r].result # None
  /\ key[r] \in DOMAIN cache
  /\ cache[key[r]] = [ts |-> now[r], value |-> live[r].result[1]]

\* C3 (as stated): two completed resolutions for the same key that both
\* returned a payload and started less than a time-to-live apart returned the
\* same payload.
C3_Original ==
  \A r1, r2 \in Reqs :
    ( /\ r1 # r2
      /\ pc[r1] = "done" /\ pc[r2] = "done"
      /\ live[r1].invoked /\ live[r2].invoked
      /\ live[r1].result # None /\ live[r2].result # None
      /\ key[r1] = key[r2]
      /\ now[r1] <= now[r2] /\ now[r2] - now[r1] < CACHE_TTL_MS )
    => live[r1].result = live[r2].result

\* C3 (amended): when a resolution starts for a key whose cache entry is the
\* one a completed resolution wrote, it returns that resolution's payload,
\* field for field, marked as served from cache and without a provider call,
\* if it starts less than five minutes after that resolution started; and it
\* calls the provider if it starts five minutes or more after.
C3_SecondWithinWindowIdentical ==
  [][\A r1, r2 \in Reqs :
       (r1 # r2 /\ IsLastWriter(r1) /\ ResolverEntry(r2) /\ key'[r2] = key[r1]) =>
         /\ clock - now[r1] < CACHE_TTL_MS =>
              /\ live'[r2].result = live[r1].result
              /\ live'[r2].cached
              /\ calls'[r2].exa = 0
              /\ response'[r2].provenance =
                   Some(<< [source |-> live[r1].result[1].source,
                            raw |-> StrOrEmpty(live[r1].result[1].raw)] >>)
         /\ clock - now[r1] >= CACHE_TTL_MS =>
              /\ pc'[r2] = "searching"
              /\ calls'[r2].exa = 1
              /\ ~live'[r2].cached]_vars

\* C3 witness: a resolution that started half a time-to-live after the one
\* that wrote the entry has returned the same payload from the cache.
C3_Witness ==
  \E r1, r2 \in Reqs :
    /\ r1 # r2 /\ IsLastWriter(r1)
    /\ pc[r2] = "done" /\ live[r2].cached /\ key[r2] = key[r1]
    /\ now[r2] > now[r1]
    /\ live[r2].result = live[r1].result

\* an optional text that is present and not the empty string
NonEmptyText(o) == o # None /\ Len(o[1]) > 0 /\ \A i \in 1..Len(o[1]) : o[1][i] # ""

\* C4: when the provider call of a price-intent request with a catalog match
\* fails, the resolver returns none after that single call and the response
\* is the successful degraded answer: the catalog record's text and metadata,
\* no provenance, no error.
C4_ProviderFailureDegrades ==
  \A r \in Reqs :
    (pc[r] = "done" /\ live[r].invoked /\ ~live[r].cached /\ data[r] = None) =>
      /\ live[r].result = None
      /\ calls[r].exa = 1
      /\ calls[r].cacheSet = 0
      /\ meta[r] # None
      /\ response[r].status = 200
      /\ NonEmptyText(response[r].answer)
      /\ Contains(response[r].answer[1],
                  meta[r][1].brand \o <<" ">> \o meta[r][1].model_name \o <<" (">>
                    \o meta[r][1].reference_number \o <<")">>)
      /\ response[r].metadata = meta[r]
      /\ response[r].provenance = None
      /\ response[r].error = None

\* C4 witness: a price-intent request whose provider call failed has been answered.
C4_Witness ==
  \E r \in Reqs :
    /\ pc[r] = "done" /\ live[r].invoked /\ calls[r].exa = 1 /\ data[r] = None
    /\ needsPrice(question[r]) /\ response[r].status = 200

\* C5: a request whose question is empty or made of white space only ends at
\* once in a 400 response with no answer, and has called no collaborator and
\* neither read nor written the cache.
C5_BlankQuestionRejected ==
  \A r \in Reqs :
    (rounds[r] > 0 /\ Trim(question[r]) = <<>>) =>
      /\ pc[r] = "done"
      /\ response[r].status = 400
      /\ response[r].answer = None /\ response[r].metadata = None
      /\ response[r].provenance = None
      /\ NonEmptyText(response[r].error)
      /\ calls[r] = NoCalls
      /\ ~live[r].invoked /\ pcResp[r] = None /\ data[r] = None

\* C5 witness: a white-space-only question has been rejected.
C5_Witness ==
  \E r \in Reqs :
    /\ pc[r] = "done" /\ question[r] = <<" ", " ", "\t">> /\ response[r].status = 400

\* C6: when the vector database returns zero matches the request ends with
\* the fixed no-match answer, without metadata or provenance, and the resolver,
\* the provider and the cache are not touched, whatever the question asks.
C6_NoMatchIsTerminal ==
  \A r \in Reqs :
    (pcResp[r] # None /\ pcResp[r][1] = <<>>) =>
      /\ pc[r] = "done"
      /\ response[r].status = 200
      /\ response[r].answer =
           Some(<<"I couldn't find a matching model in the catalog. Try asking about a specific brand/model.">>)
      /\ response[r].metadata = None /\ response[r].provenance = None
      /\ response[r].error = None
      /\ ~live[r].invoked
      /\ calls[r].exa = 0 /\ calls[r].cacheGet = 0 /\ calls[r].cacheSet = 0
      /\ data[r] = None

\* C6 witness: a price-intent question met zero matches.
C6_Witness ==
  \E r \in Reqs :
    /\ pcResp[r] # None /\ pcResp[r][1] = <<>>
    /\ needsPrice(question[r]) /\ pc[r] = "done"

\* slot r's embedding call failed
EmbeddingFailed(r) ==
  pc[r] = "done" /\ calls[r].embed = 1 /\ calls[r].pinecone = 0

\* slot r's vector-database call failed
PineconeFailed(r) ==
  pc[r] = "done" /\ calls[r].pinecone = 1 /\ pcResp[r] = None

\* C7: when the embedding call or the vector-database call fails, the request
\* ends in a 500 response that carries an error message and no answer,
\* metadata or provenance; each call was made once, the provider was not
\* called, the resolver not entered, and the failing step leaves the cache as
\* it was.
C7_RetrievalFailureIsServerError ==
  /\ [](\A r \in Reqs :
          (EmbeddingFailed(r) \/ PineconeFailed(r)) =>
            /\ response[r].status = 500
            /\ NonEmptyText(response[r].error)
            /\ response[r].answer = None /\ response[r].metadata = None
            /\ response[r].provenance = None
            /\ calls[r].embed = 1 /\ calls[r].pinecone <= 1
            /\ calls[r].exa = 0 /\ calls[r].cacheGet = 0 /\ calls[r].cacheSet = 0
            /\ ~live[r].invoked /\ meta[r] = None)
  /\ [][\A r \in Reqs :
          (pc[r] \in {"embedding", "querying"} /\ pc'[r] = "done") => cache' = cache]_vars

\* C7 witness: one request has failed in the embedding call and another in
\* the vector-database call.
C7_Witness ==
  \E r1, r2 \in Reqs :
    /\ EmbeddingFailed(r1) /\ response[r1].status = 500
    /\ PineconeFailed(r2) /\ response[r2].status = 500

\* C8 (as stated): every completed request with a non-blank question has a
\* non-empty answer.
C8_Original ==
  \A r \in Reqs :
    (pc[r] = "done" /\ Trim(question[r]) # <<>>) => NonEmptyText(response[r].answer)

\* C8 (amended): a completed request with a non-blank question has a non-empty
\* answer in a 200 response whenever the embedding and vector-database calls
\* both returned; when either failed it has a 500 response with a non-empty
\* error message and no answer.
C8_AnswerNonEmptyUnlessRetrievalFails ==
  \A r \in Reqs :
    (pc[r] = "done" /\ Trim(question[r]) # <<>>) =>
      /\ pcResp[r] # None =>
           /\ response[r].status = 200
           /\ NonEmptyText(response[r].answer)
           /\ response[r].error = None
      /\ pcResp[r] = None =>
           /\ response[r].status = 500
           /\ response[r].answer = None
           /\ NonEmptyText(response[r].error)

\* C8 witness: a question about a match that carries no metadata at all has
\* been answered.
C8_Witness ==
  \E r \in Reqs :
    /\ pc[r] = "done" /\ ~needsPrice(question[r])
    /\ pcResp[r] = Some(<<Match_Bare>>)
    /\ response[r].status = 200 /\ NonEmptyText(response[r].answer)

\* C9: whenever the resolver yields a payload the response is a 200 response
\* whose answer shows the payload's currency, its numeric value, its source
\* and its timestamp, with one provenance record holding the source and the
\* raw matched text.
C9_LiveAnswerCarriesPrice ==
  \A r \in Reqs :
    (pc[r] = "done" /\ live[r].invoked /\ live[r].result # None) =>
      LET out == live[r].result[1]
      IN  /\ response[r].status = 200
          /\ out.value # None /\ out.currency # None /\ out.raw # None
          /\ NonEmptyText(response[r].answer)
          /\ Contains(response[r].answer[1], out.currency[1] \o <<" ">> \o NumStr(out.value[1]))
          /\ Contains(response[r].answer[1], out.source)
          /\ Contains(response[r].answer[1], out.ts)
          /\ response[r].provenance = Some(<< [source |-> out.source, raw |-> out.raw[1]] >>)

\* the response d has a usable structured price at the top level
TopLevelPriced(d) ==
  /\ d.price # None
  /\ \/ (d.price[1].value # None /\ d.price[1].value[1].num # 0)
     \/ (d.price[1].raw # None /\ d.price[1].raw[1] # <<>>)

\* some entry of the result list of d has a usable structured price
SomeResultPriced(d) ==
  \E i \in 1..Len(d.results) :
    /\ d.results[i].price # None
    /\ \/ (d.results[i].price[1].value # None /\ d.results[i].price[1].value[1].num # 0)
       \/ (d.results[i].price[1].raw # None /\ d.results[i].price[1].raw[1] # <<>>)

\* C10: when the provider response has a usable structured price both at the
\* top level and in an entry of the result list, the payload's value,
\* currency and raw are the top-level ones and its source is the top-level
\* source (the provider tag when there is none), never an entry's.
C10_TopLevelPriceWins ==
  \A r \in Reqs :
    (pc[r] = "done" /\ data[r] # None
       /\ TopLevelPriced(data[r][1]) /\ SomeResultPriced(data[r][1])) =>
      LET d == data[r][1]
      IN  /\ live[r].result # None
          /\ live[r].result[1].value = NumOrNull(d.price[1].value)
          /\ live[r].result[1].currency = StrOrNull(d.price[1].currency)
          /\ live[r].result[1].raw = StrOrNull(d.price[1].raw)
          /\ live[r].result[1].source =
               (IF d.source # None /\ d.source[1] # <<>> THEN d.source[1] ELSE EXA_SEARCH)

\* C10 witness: a response with a top-level price of USD 9000 and a result
\* priced $ 9500 has been resolved to 9000.
C10_Witness ==
  \E r \in Reqs :
    /\ pc[r] = "done" /\ data[r] # None
    /\ TopLevelPriced(data[r][1]) /\ SomeResultPriced(data[r][1])
    /\ data[r][1].results[1] = Result_Struct
    /\ live[r].result # None
    /\ live[r].result[1].value = Some(Dec(9000))
    /\ live[r].result[1].currency = Some(Str_USD)

\* slot r has completed a resolution that called the provider and wrote the cache
HasWritten(r) ==
  /\ pc[r] = "done" /\ live[r].invoked /\ ~live[r].cached
  /\ calls[r].exa = 1 /\ calls[r].cacheSet = 1 /\ live[r].result # None

\* C11: a resolution that finds no fresh entry calls the provider even while
\* another resolution for the same key is waiting on its own provider call (no
\* lock, no coalescing); each of them that obtains a candidate writes the
\* cache, the write replacing whatever entry the key had by the writer's own
\* payload and leaving the other keys alone; so once both have completed, the
\* key has one entry and it is the payload of one of the two, the one that
\* wrote last.
C11_LastWriterWins ==
  /\ [][\A r \in Reqs :
          /\ (ResolverEntry(r) /\ ~live'[r].cached) =>
               /\ pc'[r] = "searching"
               /\ calls'[r].exa = 1
          /\ (ExaStep(r) /\ live'[r].result # None) =>
               /\ calls'[r].cacheSet = 1
               /\ DOMAIN cache' = DOMAIN cache \cup {key[r]}
               /\ cache'[key[r]].value = live'[r].result[1]
               /\ \A k \in DOMAIN cache : k # key[r] => cache'[k] = cache[k]]_vars
  /\ [](\A r1, r2 \in Reqs :
          (r1 # r2 /\ HasWritten(r1) /\ HasWritten(r2) /\ key[r1] = key[r2]) =>
            /\ key[r1] \in DOMAIN cache
            /\ cache[key[r1]].value \in {live[r1].result[1], live[r2].result[1]})

\* C11 witness: two resolutions for one key have both called the provider and
\* both written the cache, with different payloads; the entry holds the
\* payload of slot 2.
C11_Witness ==
  /\ HasWritten(1) /\ HasWritten(2) /\ key[1] = key[2]
  /\ live[1].result # live[2].result
  /\ live[1].result[1].value # live[2].result[1].value
  /\ cache[key[1]].value = live[2].result[1]

\* C12: within a request the embedding provider, the vector database and the
\* search provider are each called at most once; the vector database is called
\* in the step in which the embedding call returns, and the search provider
\* only in a later step, after the vector database has returned a match, for a
\* price-intent question and with no fresh cache entry for the key; no counter
\* changes otherwise until the next request starts.
C12_CallsOnceInOrder ==
  /\ [](\A r \in Reqs :
          /\ calls[r].embed <= 1 /\ calls[r].pinecone <= 1 /\ calls[r].exa <= 1
          /\ calls[r].pinecone = 1 => calls[r].embed = 1
          /\ calls[r].exa = 1 =>
               /\ calls[r].pinecone = 1
               /\ pcResp[r] # None /\ Len(pcResp[r][1]) > 0
               /\ meta[r] # None
               /\ needsPrice(question[r]))
  /\ [][\A r \in Reqs :
          /\ calls'[r].embed > calls[r].embed =>
               /\ pc[r] \in {"idle", "done"}
               /\ calls'[r] = [NoCalls EXCEPT !.embed = 1]
          /\ calls'[r].pinecone > calls[r].pinecone =>
               /\ pc[r] = "embedding" /\ calls[r].embed = 1
               /\ calls'[r].exa = 0
          /\ calls'[r].exa > calls[r].exa =>
               /\ pc[r] = "importing"
               /\ pcResp[r] # None /\ Len(pcResp[r][1]) > 0
               /\ ~(/\ key'[r] \in DOMAIN cache
                    /\ clock - cache[key'[r]].ts < 300000)
          /\ (calls'[r].embed < calls[r].embed \/ calls'[r].pinecone < calls[r].pinecone
                \/ calls'[r].exa < calls[r].exa) =>
               (pc[r] = "done" /\ rounds'[r] = rounds[r] + 1)]_vars

\* C12 witness: a request has made the three calls, once each, and its provider
\* call has failed.
C12_Witness ==
  \E r \in Reqs :
    /\ pc[r] = "done"
    /\ calls[r].embed = 1 /\ calls[r].pinecone = 1 /\ calls[r].exa = 1
    /\ data[r] = None /\ live[r].invoked /\ ~live[r].cached

\* the vector database of slot r's request returned at least one match
MatchFound(r) == pcResp[r] # None /\ Len(pcResp[r][1]) > 0

\* C13: a response that has been sent is a 200, a 400 or a 500 response; a
\* 200 response has an answer and no error, has metadata exactly when the
\* vector database returned a match, and has provenance (one record of source
\* and raw) exactly when the resolver returned a payload in that request; a
\* 400 or 500 response has an error and no answer, metadata or provenance.
C13_ResponseShapes ==
  \A r \in Reqs :
    pc[r] = "done" =>
      /\ response[r].status \in {200, 400, 500}
      /\ response[r].status = 200 =>
           /\ NonEmptyText(response[r].answer)
           /\ response[r].error = None
           /\ response[r].metadata # None <=> MatchFound(r)
           /\ response[r].metadata = meta[r]
           /\ response[r].provenance # None <=> (live[r].invoked /\ live[r].result # None)
           /\ response[r].provenance # None =>
                /\ Len(response[r].provenance[1]) = 1
                /\ DOMAIN response[r].provenance[1][1] = {"source", "raw"}
      /\ response[r].status \in {400, 500} =>
           /\ response[r].answer = None
           /\ response[r].metadata = None
           /\ response[r].provenance = None
           /\ NonEmptyText(response[r].error)

\* C13 witness: one request has a live answer with metadata and provenance,
\* the other the no-match answer with neither.
C13_Witness ==
  \E r1, r2 \in Reqs :
    /\ pc[r1] = "done" /\ response[r1].status = 200 /\ live[r1].result # None
    /\ response[r1].metadata # None /\ response[r1].provenance # None
    /\ pc[r2] = "done" /\ response[r2].status = 200 /\ ~MatchFound(r2)
    /\ response[r2].metadata = None /\ response[r2].provenance = None

\* C14: no step removes a key from the cache; an entry changes only in the
\* step of a resolution for its own key whose provider call yielded a
\* candidate; and a cache hit, a provider failure, a response without a
\* candidate and the passing of time (an entry growing stale) leave the whole
\* cache, keys, timestamps and payloads, as it was.
C14_CacheNeverShrinks ==
  [][/\ DOMAIN cache \subseteq DOMAIN cache'
     /\ \A k \in DOMAIN cache :
          cache'[k] # cache[k] =>
            \E r \in Reqs :
              /\ ExaStep(r) /\ key[r] = k
              /\ data'[r] # None /\ live'[r].result # None /\ ~live'[r].cached
     /\ \A r \in Reqs :
          /\ (ResolverEntry(r) /\ live'[r].cached) => cache' = cache
          /\ (ExaStep(r) /\ live'[r].result = None) => cache' = cache
     /\ clock' # clock => cache' = cache]_vars

\* C14 witness: the cache holds entries under two keys; one of them is stale
\* and a resolution for its key, started when it was stale already, has ended
\* without a result.
C14_Witness ==
  \E r \in Reqs :
    /\ Cardinality(DOMAIN cache) = 2
    /\ pc[r] = "done" /\ live[r].invoked /\ ~live[r].cached /\ live[r].result = None
    /\ key[r] \in DOMAIN cache
    /\ now[r] - cache[key[r]].ts >= CACHE_TTL_MS

\* the catalog records m1 and m2 have the same brand, model and reference once
\* each field is lower-cased and stripped of leading and trailing white space
SameWatch(m1, m2) ==
  /\ Trim(ToLowerCase(m1.brand)) = Trim(ToLowerCase(m2.brand))
  /\ Trim(ToLowerCase(m1.model_name)) = Trim(ToLowerCase(m2.model_name))
  /\ Trim(ToLowerCase(m1.reference_number)) = Trim(ToLowerCase(m2.reference_number))

\* C15: two resolutions whose (brand, model, reference) are equal after
\* lower-casing and trimming each field use the same cache key; so a resolution
\* that starts less than five minutes after the start of the one that wrote
\* the entry, for a record that spells the same watch differently, is served
\* that entry from the cache, without a provider call.
C15_KeyIgnoresCaseAndPadding ==
  /\ [](\A r1, r2 \in Reqs :
          (r1 < r2 /\ live[r1].invoked /\ live[r2].invoked /\ key[r1] # key[r2])
            => ~SameWatch(meta[r1][1], meta[r2][1]))
  /\ [][\A r1, r2 \in Reqs :
          ( /\ r1 # r2 /\ ResolverEntry(r2) /\ IsLastWriter(r1)
            /\ clock - now[r1] < CACHE_TTL_MS
            /\ SameWatch(meta[r1][1], meta'[r2][1]) )
          => /\ live'[r2].cached
             /\ live'[r2].result = live[r1].result
             /\ calls'[r2].exa = 0]_vars

\* C15 witness: the resolution for ("rolex", " submariner ", "126610ln") has
\* been served the entry written by the one for ("Rolex", "Submariner",
\* "126610LN").
C15_Witness ==
  \E r1, r2 \in Reqs :
    /\ r1 # r2 /\ IsLastWriter(r1)
    /\ meta[r1][1].brand = Str_Rolex /\ meta[r1][1].model_name = Str_Submariner
    /\ meta[r1][1].reference_number = Str_126610LN
    /\ pc[r2] = "done" /\ live[r2].cached /\ live[r2].result = live[r1].result
    /\ meta[r2][1].brand = <<"r","o","l","e","x">>
    /\ meta[r2][1].model_name = <<" ","s","u","b","m","a","r","i","n","e","r"," ">>
    /\ meta[r2][1].reference_number = <<"1","2","6","6","1","0","l","n">>

\* slot r has answered a price-intent question about {Rolex, Submariner,
\* 126610LN} from a provider response without a usable top-level price whose
\* first result has a URL, the snippet "listed at $9,500 on Chrono24", and
\* neither a title nor a structured price; nothing was served from cache
C16_Scenario(r) ==
  /\ pc[r] = "done" /\ needsPrice(question[r])
  /\ meta[r] # None
  /\ meta[r][1].brand = Str_Rolex
  /\ meta[r][1].model_name = Str_Submariner
  /\ meta[r][1].reference_number = Str_126610LN
  /\ live[r].invoked /\ ~live[r].cached
  /\ data[r] # None /\ ~TopLevelPriced(data[r][1])
  /\ Len(data[r][1].results) >= 1
  /\ data[r][1].results[1].price = None
  /\ data[r][1].results[1].title = None
  /\ data[r][1].results[1].snippet = Some(Str_Snippet)
  /\ data[r][1].results[1].url # None /\ data[r][1].results[1].url[1] # <<>>

\* the payload and the response of slot r show 9500, "$", the first result's
\* URL, and the raw text `raw`
C16_Yields(r, raw) ==
  /\ live[r].result # None
  /\ live[r].result[1].value = Some([num |-> 9500, exp |-> 0])
  /\ live[r].result[1].currency = Some(<<"$">>)
  /\ live[r].result[1].source = data[r][1].results[1].url[1]
  /\ live[r].result[1].raw = Some(raw)
  /\ response[r].status = 200
  /\ response[r].provenance =
       Some(<< [source |-> data[r][1].results[1].url[1], raw |-> raw] >>)

\* C16 (as stated): in the scenario the raw text of the provenance entry is
\* "$ 9,500".
C16_Original ==
  \A r \in Reqs : C16_Scenario(r) => C16_Yields(r, <<"$"," ","9",",","5","0","0">>)

\* C16 (amended): in the scenario the pipeline yields value 9500, currency
\* "$", the first result's URL as source, and one provenance entry whose raw
\* text is the matched substring "$9,500".
C16_SnippetScenario ==
  \A r \in Reqs : C16_Scenario(r) => C16_Yields(r, <<"$","9",",","5","0","0">>)

\* C16 witness: the scenario has been answered, a priced second result
\* notwithstanding.
C16_Witness ==
  \E r \in Reqs :
    /\ C16_Scenario(r)
    /\ Len(data[r][1].results) = 2
    /\ response[r].provenance # None

\* C17: when the parser returns a candidate for a text, the parser applied to
\* the candidate's raw text returns a candidate with the same value (none
\* where the first had none), the same currency and the same raw text.
C17_ParserRoundTrip ==
  (arg.fn = "parse" /\ Len(ret) = 2) =>
    /\ ret[1] # None /\ ret[1][1].raw # None
    /\ ret[2] # None
    /\ ret[2][1].value = ret[1][1].value
    /\ ret[2][1].currency = ret[1][1].currency
    /\ ret[2][1].raw = ret[1][1].raw

\* C17 witness: the parser has been applied to a text and then to the raw
\* text of its candidate, a proper part of the text that holds a currency
\* marker and separators but no number.
C17_Witness ==
  /\ arg.fn = "parse" /\ Len(ret) = 2
  /\ ret[1] # None /\ ret[1][1].value = None
  /\ ret[1][1].raw # arg.text
  /\ ret[2] = ret[1]

\* slot r's request is suspended on a call
InFlight(r) == pc[r] \in {"embedding", "querying", "importing", "searching"}

\* C18: a request suspended on a call eventually has its response; a request
\* is always either finished or suspended on one of its own four calls (there
\* is no state of waiting for another request or for the cache), has no
\* response while it is suspended and one 200, 400 or 500 response once it is
\* done, set in a single step and not changed until the slot's next request
\* starts; and the step of one request changes neither the position nor the
\* response of another.
C18_EveryRequestAnswered ==
  /\ \A r \in Reqs : InFlight(r) ~> (pc[r] = "done" /\ response[r].status # 0)
  /\ [](\A r \in Reqs :
          /\ pc[r] \in {"idle", "done"} \/ InFlight(r)
          /\ (pc[r] = "idle" \/ InFlight(r)) => response[r] = NoResponse
          /\ pc[r] = "done" => response[r].status \in {200, 400, 500})
  /\ [][\A r \in Reqs :
          /\ response'[r] # response[r] =>
               \/ /\ pc[r] \in {"idle", "done"} /\ rounds'[r] = rounds[r] + 1
                  /\ \/ pc'[r] = "embedding" /\ response'[r] = NoResponse
                     \/ pc'[r] = "done" /\ response'[r].status = 400
               \/ /\ InFlight(r) /\ response[r] = NoResponse
                  /\ pc'[r] = "done" /\ response'[r].status \in {200, 500}
          /\ pc'[r] # pc[r] =>
               \A r2 \in Reqs \ {r} : pc'[r2] = pc[r2] /\ response'[r2] = response[r2]]_vars

\* C18 witness: one request has been answered while the other, which started
\* a resolution for the same key before it, is still waiting on the provider.
C18_Witness ==
  \E r1, r2 \in Reqs :
    /\ pc[r1] = "done" /\ response[r1].status = 200 /\ live[r1].invoked /\ ~live[r1].cached
    /\ pc[r2] = "searching" /\ key[r2] = key[r1] /\ now[r2] < now[r1]

\* entry i of the result list of d has a usable structured price
EntryPriced(d, i) ==
  /\ d.results[i].price # None
  /\ \/ (d.results[i].price[1].value # None /\ d.results[i].price[1].value[1].num # 0)
     \/ (d.results[i].price[1].raw # None /\ d.results[i].price[1].raw[1] # <<>>)

\* the parse of the title, snippet and summary of entry i of d, joined by spaces
EntryParse(d, i) == parsePriceFromText(Some(ResultText(d.results[i])))

\* the payload `out` has the given value, currency, raw text and source, a
\* value of 0 and an empty string counting as none, and the provider tag
\* standing for a missing source
PayloadIs(out, value, currency, raw, source) ==
  /\ out.value = (IF value # None /\ value[1].num # 0 THEN value ELSE None)
  /\ out.currency = (IF currency # None /\ currency[1] # <<>> THEN currency ELSE None)
  /\ out.raw = (IF raw # None /\ raw[1] # <<>> THEN raw ELSE None)
  /\ out.source = (IF source # None /\ source[1] # <<>> THEN source[1] ELSE EXA_SEARCH)

\* the URL of an entry, else its source
EntrySource(e) == IF e.url # None /\ e.url[1] # <<>> THEN e.url ELSE e.source

\* C19: when the provider response has no usable top-level structured price,
\* the payload comes from the first entry of the result list that has a usable
\* structured price or parsable text: from its structured price if it has
\* one, else from its text, with the entry's URL (else its source) as source,
\* whatever later entries hold; and only when no entry has either does it come
\* from the parse of the response's own text, and there is no payload when
\* that yields nothing either.
C19_FirstYieldingEntryWins ==
  \A r \in Reqs :
    (pc[r] = "done" /\ data[r] # None /\ ~live[r].cached /\ ~TopLevelPriced(data[r][1])) =>
      LET d == data[r][1]
          yielding == { i \in 1..Len(d.results) : EntryPriced(d, i) \/ EntryParse(d, i) # None }
      IN  IF yielding # {}
          THEN LET i == CHOOSE i \in yielding : \A j \in yielding : i <= j
                   e == d.results[i]
               IN  /\ live[r].result # None
                   /\ IF EntryPriced(d, i)
                      THEN PayloadIs(live[r].result[1], e.price[1].value,
                                     e.price[1].currency, e.price[1].raw, EntrySource(e))
                      ELSE PayloadIs(live[r].result[1], EntryParse(d, i)[1].value,
                                     EntryParse(d, i)[1].currency, EntryParse(d, i)[1].raw,
                                     EntrySource(e))
          ELSE IF d.text # None /\ d.text[1] # <<>> /\ parsePriceFromText(d.text) # None
          THEN /\ live[r].result # None
               /\ PayloadIs(live[r].result[1], parsePriceFromText(d.text)[1].value,
                            parsePriceFromText(d.text)[1].currency,
                            parsePriceFromText(d.text)[1].raw, d.source)
          ELSE live[r].result = None

\* C19 witness: a response whose first entry yields nothing, whose second has
\* a structured price and a price in its snippet, whose third has a price in
\* its snippet, and whose own text has a price, resolved to the second
\* entry's structured price.
C19_Witness ==
  \E r \in Reqs :
    /\ pc[r] = "done" /\ data[r] # None /\ ~TopLevelPriced(data[r][1])
    /\ data[r][1].results = <<Result_Title, Result_Both, Result_Text>>
    /\ data[r][1].text = Some(<<"$","0","0">>)
    /\ live[r].result # None
    /\ live[r].result[1].value = Some([num |-> 8000, exp |-> 0])
    /\ live[r].result[1].source = Url2

\* C20: no step replaces the cache entry of a key by an entry with an earlier
\* timestamp.
C20_TimestampNeverDecreases ==
  [][\A k \in DOMAIN cache :
       k \in DOMAIN cache' => cache'[k].ts >= cache[k].ts]_vars

\* C21: an entry written to the cache carries the instant of the write as its
\* timestamp, so that a resolution for the same key that enters the resolver
\* at the instant a successful resolution returned is served from the cache.
C21_EntryAgeZeroWhenWritten ==
  [][/\ \A k \in DOMAIN cache' :
          CacheGet(cache', k) # CacheGet(cache, k) => cache'[k].ts = clock
     /\ \A r1, r2 \in Reqs :
          ( /\ r1 # r2 /\ IsLastWriter(r1)
            /\ live[r1].result[1].ts = ISOString(clock)
            /\ ResolverEntry(r2) /\ key'[r2] = key[r1] )
          => (live'[r2].cached /\ calls'[r2].exa = 0)]_vars

\* the field o, lower-cased and trimmed, a missing field counting as empty
FieldNormalized(o) == Trim(ToLowerCase(IF o = None THEN <<>> ELSE o[1]))

\* C22: two tuples that have the same cache key have pairwise equal
\* lower-cased, trimmed fields.
C22_SameKeyOnlyForSameTuple ==
  (arg.fn = "key" /\ Len(ret) = 2 /\ ret[1] = ret[2]) =>
    /\ FieldNormalized(arg.t1.brand) = FieldNormalized(arg.t2.brand)
    /\ FieldNormalized(arg.t1.model) = FieldNormalized(arg.t2.model)
    /\ FieldNormalized(arg.t1.ref) = FieldNormalized(arg.t2.ref)

\* the source labels the provider response d offers: its own source and the
\* URL and source of each entry of its result list
SourceLabels(d) ==
  (IF d.source # None THEN {d.source[1]} ELSE {})
    \cup { d.results[i].url[1] : i \in { j \in 1..Len(d.results) : d.results[j].url # None } }
    \cup { d.results[i].source[1] : i \in { j \in 1..Len(d.results) : d.results[j].source # None } }

\* the payload has a source label, a timestamp, and a value or a raw text
WellFormedPayload(out) ==
  /\ out.source # <<>>
  /\ out.ts # <<>>
  /\ out.value # None \/ out.raw # None
  /\ out.raw # None => out.raw[1] # <<>>

\* C23: every payload in the cache and every payload a resolution returned
\* has a non-empty source label, a timestamp, and a value or a raw text (or
\* both); the source of a payload built from a provider response is one of
\* the labels of that response or, failing that, the provider tag, and its
\* timestamp is the rendering of an instant of the run.
C23_PayloadWellFormed ==
  /\ \A k \in DOMAIN cache : WellFormedPayload(cache[k].value)
  /\ \A r \in Reqs :
       (live[r].invoked /\ live[r].result # None) =>
         /\ WellFormedPayload(live[r].result[1])
         /\ (~live[r].cached /\ data[r] # None) =>
              /\ live[r].result[1].source \in SourceLabels(data[r][1]) \cup {EXA_SEARCH}
              /\ live[r].result[1].ts = ISOString(clock)
                   \/ \E t \in 0..MaxTicks : live[r].result[1].ts = ISOString(t * TickMs)

\* C23 witness: a structured price that carries only raw text, in a response
\* without any source label, has been cached under the provider tag.
C23_Witness ==
  \E r \in Reqs :
    /\ pc[r] = "done" /\ live[r].result # None
    /\ data[r] # None /\ SourceLabels(data[r][1]) = {}
    /\ live[r].result[1].value = None /\ live[r].result[1].raw # None
    /\ live[r].result[1].source = EXA_SEARCH
    /\ key[r] \in DOMAIN cache /\ cache[key[r]].value = live[r].result[1]

\* C24: once the vector database has returned, the request has no catalog
\* record exactly when the list of matches is empty; otherwise its record is
\* built from the first match of the list, whatever the scores of the others:
\* that match's score, and for each of brand, model name, reference number,
\* description, category, movement and caliber the match's metadata value, or
\* the empty string where the metadata or the field is missing.
C24_FirstMatchNormalized ==
  \A r \in Reqs :
    pcResp[r] # None =>
      /\ meta[r] = None <=> Len(pcResp[r][1]) = 0
      /\ Len(pcResp[r][1]) > 0 =>
           LET top == pcResp[r][1][1]
           IN  /\ meta[r][1].score = top.score
               /\ \A f \in {"brand", "model_name", "reference_number", "description",
                            "category", "movement", "caliber"} :
                    meta[r][1][f] =
                      (IF top.metadata # None /\ top.metadata[1][f] # None
                       THEN top.metadata[1][f][1] ELSE <<>>)

\* C24 witness: of two matches the first, with the lower score and no
\* description, has been selected.
C24_Witness ==
  \E r \in Reqs :
    /\ pcResp[r] # None /\ Len(pcResp[r][1]) = 2
    /\ pcResp[r][1][1].score = Some([num |-> 5, exp |-> 0])
    /\ pcResp[r][1][2].score = Some([num |-> 9, exp |-> 0])
    /\ meta[r] # None
    /\ meta[r][1].brand = <<"r","o","l","e","x">>
    /\ meta[r][1].description = <<>>

\* the question q holds one of the price-intent terms, in any letter case
HasPriceTerm(q) ==
  \E t \in PriceTerms :
    \E i \in 1..Len(q) :
      /\ i + Len(t) - 1 <= Len(q)
      /\ \A j \in 1..Len(t) : ToLowerChar(q[i + j - 1]) = t[j]

\* C25: a request whose question holds no price-intent term and for which a
\* catalog match was found ends without entering the resolver, calling the
\* provider, or reading or writing the cache, in a 200 response whose answer
\* gives the record's brand, model, reference and description, with the
\* record as metadata and no provenance; no step of such a request changes
\* the cache; and a request that entered the resolver has a question that
\* holds a price-intent term.
C25_NoPriceIntentNoResolver ==
  /\ [](\A r \in Reqs :
          /\ (pc[r] = "done" /\ MatchFound(r) /\ ~HasPriceTerm(question[r])) =>
               /\ ~live[r].invoked /\ data[r] = None
               /\ calls[r].exa = 0 /\ calls[r].cacheGet = 0 /\ calls[r].cacheSet = 0
               /\ response[r].status = 200
               /\ NonEmptyText(response[r].answer)
               /\ Contains(response[r].answer[1],
                           meta[r][1].brand \o <<" ">> \o meta[r][1].model_name \o <<" (">>
                             \o meta[r][1].reference_number \o <<")">>)
               /\ Contains(response[r].answer[1], meta[r][1].description)
               /\ response[r].metadata = meta[r]
               /\ response[r].provenance = None
          /\ (live[r].invoked \/ calls[r].exa > 0 \/ calls[r].cacheGet > 0
                \/ calls[r].cacheSet > 0 \/ pc[r] \in {"importing", "searching"})
               => HasPriceTerm(question[r]))
  /\ [][\A r \in Reqs :
          (pc'[r] # pc[r] /\ ~HasPriceTerm(question'[r])) => cache' = cache]_vars

\* C25 witness: a question about specifications has been answered from the
\* catalog while the cache holds the entry written for a question that spells
\* the term with a capital letter.
C25_Witness ==
  \E r1, r2 \in Reqs :
    /\ pc[r1] = "done" /\ question[r1] = <<"s","p","e","c","s">> /\ MatchFound(r1)
    /\ response[r1].status = 200 /\ response[r1].metadata # None
    /\ pc[r2] = "done" /\ question[r2] = <<"P","r","i","c","e","?">>
    /\ live[r2].invoked /\ calls[r2].cacheSet = 1
    /\ key[r2] \in DOMAIN cache

====
